---- MODULE Spec2Model ----
(***************************************************************************)
(* my_utils_delta_table: a facade over a Delta Lake client (delta.py) and  *)
(* over an S3-compatible SDK (s3.py).  The facade's functions are modelled *)
(* statement by statement; the calls they make into the wrapped libraries  *)
(* (write_deltalake, DeltaTable, the merge builder, list_buckets,          *)
(* create_bucket, boto3.client) are modelled by the documented behaviour   *)
(* of the call the source makes at that line.                              *)
(***************************************************************************)
EXTENDS Integers, Sequences, FiniteSets, Bags, TLC

VARIABLES
    table,        \* the Delta table at the location `path`: its latest committed snapshot
    last,         \* the facade call that returned last, as its caller observed it
    nWrites,      \* write_table_to_deltalake calls that returned normally since the location was fresh
    lastWritten,  \* schema of the table passed to the last such call
    nStored,      \* those of them made in overwrite or append mode
    lastStored,   \* schema of the table passed to the last of those
    readAfter,    \* for a read: the write that returned normally right before it, if any
    upPc, upJob,  \* an upsert in flight: position and the transaction it staged
    rdPc, rdSnap, \* a reader in flight: position and the snapshot DeltaTable(path) loaded
    seen,         \* snapshots committed since the upsert in flight was called
    buckets,      \* bucket names held by the storage service
    s3pc,         \* per caller of ensure_bucket_exists: its position in the call
    s3arg,        \* the bucket_name it passed
    s3list,       \* the names list_buckets returned to it
    s3out,        \* what it observes of its call
    s3prev,       \* what it observed of the call before
    conn          \* the connect_s3 call that returned last

deltaVars == <<table, last, nWrites, lastWritten, nStored, lastStored, readAfter>>
history == <<nWrites, lastWritten, nStored, lastStored>>
concVars == <<upPc, upJob, rdPc, rdSnap, seen>>
s3Vars == <<buckets, s3pc, s3arg, s3list, s3out, s3prev, conn>>
vars == <<table, last, nWrites, lastWritten, nStored, lastStored, readAfter, upPc, upJob, rdPc, rdSnap, seen,
          buckets, s3pc, s3arg, s3list, s3out, s3prev, conn>>

----------------------------------------------------------------------------
(* Bounds of the model. *)
MaxId == 1          \* id values 1..MaxId, and null
MaxRows == 2        \* rows of a table passed to write or upsert
MaxTableRows == 2   \* rows the stored table may grow to
MaxVersion == 2     \* commits to the location are cut off at this version
MaxWrites == 2      \* write calls counted since the location was fresh
MaxCallers == 2     \* concurrent callers of ensure_bucket_exists
MaxCalls == 2       \* calls each of them makes
MaxOvertakes == 1   \* commits of another writer beside an upsert

----------------------------------------------------------------------------
(* Values, rows, tables. *)
NULL == MaxId + 1                     \* a null cell
IdVals == (1..MaxId) \cup {NULL}
VVals == {1, 2}

SchemaId == {"id", "v"}               \* a table keyed by a column named id
SchemaNone == {"None"}                \* a table whose one column is named None
Schemas == {SchemaId, SchemaNone}
NoSchema == {}

ColVals(c) == IF c = "v" THEN VVals ELSE IdVals
RowsOf(schema) == {r \in [schema -> IdVals \cup VVals] : \A c \in schema : r[c] \in ColVals(c)}

RECURSIVE BagsUpTo(_, _)
BagsUpTo(rows, n) ==
    IF n = 0 THEN {EmptyBag}
    ELSE LET smaller == BagsUpTo(rows, n - 1)
         IN  smaller \cup {b (+) SetToBag({r}) : b \in smaller, r \in rows}

Size(b) == BagCardinality(b)

\* The columnar tables and dataframes a caller can pass.
Frames(kind) ==
    UNION {{[kind |-> kind, schema |-> s, rows |-> b] : b \in BagsUpTo(RowsOf(s), MaxRows)} : s \in Schemas}
ArrowTables == Frames("arrow")
PolarsFrames == Frames("polars")
\* Objects that are neither: a dict, a list.
Others == {[kind |-> k, schema |-> NoSchema, rows |-> EmptyBag] : k \in {"dict", "list"}}
NoFrame == [kind |-> "none", schema |-> NoSchema, rows |-> EmptyBag]

\* pl.DataFrame.to_arrow() and pl.from_arrow(): the same columns and rows in the other container.
to_arrow(df) == [df EXCEPT !.kind = "arrow"]
from_arrow(t) == [t EXCEPT !.kind = "polars"]

NoTable == [exists |-> FALSE, version |-> -1, schema |-> NoSchema, rows |-> EmptyBag]

----------------------------------------------------------------------------
(* The wrapped Delta Lake client, as the facade calls it. *)

\* Exception classes the library raises; ValueError is also what the facade raises itself.
LibErrors == {"DeltaError", "ValueError"}
NoErr == "none"

\* Modes write_deltalake accepts; any other string is rejected by the library.
\* ("error", which raises on an existing table, is left out of the inputs.)
LibModes == {"append", "overwrite", "ignore"}
Omitted == "<omitted>"
Modes == LibModes \cup {"upsert", Omitted}

Commit(t, schema, rows) ==
    [exists |-> TRUE, version |-> t.version + 1, schema |-> schema, rows |-> rows]

\* write_deltalake(path, table, mode=mode): the error raised (NoErr when none),
\* and the table the location holds afterwards.
write_deltalake(t, data, mode, e) ==
    IF mode \notin LibModes THEN [err |-> e, table |-> t]
    ELSE IF ~t.exists THEN [err |-> NoErr, table |-> Commit(t, data.schema, data.rows)]
    ELSE IF mode = "ignore" THEN [err |-> NoErr, table |-> t]
    ELSE IF data.schema # t.schema THEN [err |-> e, table |-> t]
    ELSE IF mode = "overwrite" THEN [err |-> NoErr, table |-> Commit(t, t.schema, data.rows)]
    ELSE [err |-> NoErr, table |-> Commit(t, t.schema, t.rows (+) data.rows)]

\* DeltaTable(path).to_pyarrow_table(): the rows of the loaded snapshot, as an Arrow table.
to_pyarrow_table(snap) == [kind |-> "arrow", schema |-> snap.schema, rows |-> snap.rows]

\* json.loads(dt.schema().to_json()): the struct of the snapshot's fields.
SchemaJson(schema) ==
    {[name |-> c, type |-> "long", nullable |-> TRUE] : c \in schema}
NoMeta == [schema |-> {}, version |-> -1]

----------------------------------------------------------------------------
(* The merge upsert_delta_table builds. *)

PyNone == "<None>"
IdColumns == {"id", "", PyNone}

\* f'source.{id_column} = target.{id_column}': the column name the f-string spells out.
Format(id_column) == IF id_column = PyNone THEN "None" ELSE id_column

\* The predicate source.c = target.c on one source row and one target row (SQL
\* equality: a null equals nothing).
Matches(c, s, t) == s[c] # NULL /\ t[c] # NULL /\ s[c] = t[c]

RECURSIVE SumOver(_, _)
SumOver(b, rs) ==
    IF rs = {} THEN 0
    ELSE LET r == CHOOSE x \in rs : TRUE IN b[r] + SumOver(b, rs \ {r})
\* Target rows (counted with multiplicity) the source row s matches.
Matched(c, s, target) == SumOver(target, {t \in DOMAIN target : Matches(c, s, t)})

\* (mutant) an upsert that leaves out .when_not_matched_by_source_delete()
MergeClausesNoDelete == {"when_matched_update_all", "when_not_matched_insert_all"}

\* The clauses chained on the merge builder.
MergeClauses == {"when_matched_update_all", "when_not_matched_insert_all",
                 "when_not_matched_by_source_delete"}

\* TableMerger.execute(): the rows of the target after the merge with the given
\* clauses.  A matched target row becomes the source row under update_all and is
\* kept as it is otherwise; an unmatched source row is added under insert_all; a
\* target row no source row matches is dropped under by_source_delete.
MergeRows(clauses, c, source, target) ==
    LET updated(s) == IF "when_matched_update_all" \in clauses
                      THEN source[s] * Matched(c, s, target) ELSE 0
        inserted(s) == IF "when_not_matched_insert_all" \in clauses /\ Matched(c, s, target) = 0
                       THEN source[s] ELSE 0
        hit(t) == \E s \in DOMAIN source : Matches(c, s, t)
        kept(t) == IF hit(t)
                   THEN (IF "when_matched_update_all" \in clauses THEN 0 ELSE target[t])
                   ELSE (IF "when_not_matched_by_source_delete" \in clauses THEN 0 ELSE target[t])
        all == DOMAIN source \cup DOMAIN target
        n(r) == (IF r \in DOMAIN source THEN updated(r) + inserted(r) ELSE 0)
                + (IF r \in DOMAIN target THEN kept(r) ELSE 0)
    IN  [r \in {x \in all : n(x) > 0} |-> n(r)]

\* The metrics execute() returns: target rows updated, inserted and deleted.
MergeMetrics(clauses, c, source, target) ==
    LET hit == {t \in DOMAIN target : \E s \in DOMAIN source : Matches(c, s, t)}
        new == {s \in DOMAIN source : Matched(c, s, target) = 0}
    IN  [updated |-> IF "when_matched_update_all" \in clauses THEN SumOver(target, hit) ELSE 0,
         inserted |-> IF "when_not_matched_insert_all" \in clauses THEN SumOver(source, new) ELSE 0,
         deleted |-> IF "when_not_matched_by_source_delete" \in clauses
                     THEN SumOver(target, DOMAIN target \ hit) ELSE 0]

\* A target row matched by more than one source row: the Delta protocol makes that
\* merge an error, and a build without the check applies the join as it stands.
Ambiguous(c, source, target) ==
    \E t \in DOMAIN target :
        SumOver(source, {s \in DOMAIN source : Matches(c, s, t)}) > 1

\* The merge can be planned: the target exists, the source has its columns, and
\* the predicate's column is one of them.
MergeResolves(t, df, c) == t.exists /\ df.schema = t.schema /\ c \in t.schema

\* Whether the build checks for ambiguous matches: either, where it matters.
Strictness(t, df, id_column) ==
    IF MergeResolves(t, df, Format(id_column)) /\ Ambiguous(Format(id_column), df.rows, t.rows)
    THEN BOOLEAN ELSE {TRUE}

\* df.write_delta(path, mode='merge', delta_merge_options=...)...execute(): the
\* error raised (NoErr when none) and the rows to commit.
MergeExecute(t, df, id_column, strict) ==
    LET c == Format(id_column)
    IN  IF ~MergeResolves(t, df, c) \/ (strict /\ Ambiguous(c, df.rows, t.rows))
        THEN [err |-> "DeltaError", rows |-> t.rows, metrics |-> MergeMetrics(MergeClauses, c, EmptyBag, EmptyBag)]
        ELSE [err |-> NoErr, rows |-> MergeRows(MergeClauses, c, df.rows, t.rows),
              metrics |-> MergeMetrics(MergeClauses, c, df.rows, t.rows)]

----------------------------------------------------------------------------
(* delta.py: the facade's calls, each a synchronous call of one caller. *)

\* What the caller of a facade function observes when it returns, with the
\* arguments it passed (the table passed is kept in arg when the call returned
\* normally), the error-level log records written and the calls made into the
\* library.
NoMetrics == [updated |-> 0, inserted |-> 0, deleted |-> 0]
NoCall ==
    [op |-> "none", kind |-> "none", arg |-> NoFrame, mode |-> Omitted, id_column |-> "",
     outcome |-> "none", err |-> NoErr, libErr |-> NoErr, errLogs |-> 0, libCalls |-> 0,
     result |-> NoFrame, meta |-> NoMeta, found |-> FALSE, metrics |-> NoMetrics]
NoWrite == [mode |-> Omitted, arg |-> NoFrame]

Returned(call, tbl) == [call EXCEPT !.outcome = "ok", !.arg = tbl]
\* except ...: logger.error(...); raise
LoggedAndRaised(call, e) == [call EXCEPT !.outcome = "raised", !.err = e, !.errLogs = @ + 1]
\* The library call raised e.
Failed(call, e) == [call EXCEPT !.libErr = e]

InBounds(t) == t.version <= MaxVersion /\ Size(t.rows) <= MaxTableRows

\* (mutant) a default of mode="append"
DefaultModeAppend == "append"
DefaultMode == "overwrite"
\* (mutant) the mode argument is dropped: the library's call is made with the default
ModeArgDropped(mode) == DefaultMode
ModeArg(mode) == IF mode = Omitted THEN DefaultMode ELSE mode

\* isinstance(table, pl.DataFrame) / isinstance(table, pa.Table)
IsPolars(tbl) == tbl.kind = "polars"
\* (mutant) no elif: whatever is not a DataFrame is handed to the library
IsArrowUnchecked(tbl) == TRUE
IsArrow(tbl) == tbl.kind = "arrow"

check_if_deltatable(io) ==
    LET call == [NoCall EXCEPT !.op = "check", !.libCalls = 1]
    IN  /\ last' = IF io = NoErr
                   THEN Returned([call EXCEPT !.found = table.exists], NoFrame)
                   ELSE LoggedAndRaised(Failed(call, io), io)
        /\ readAfter' = NoWrite
        /\ UNCHANGED <<table, history>>

write_table_to_deltalake(tbl, mode) ==
    LET m == ModeArg(mode)
        call == [NoCall EXCEPT !.op = "write", !.kind = tbl.kind, !.mode = mode]
    IN  IF ~IsPolars(tbl) /\ ~IsArrow(tbl)
        THEN /\ last' = LoggedAndRaised(call, "ValueError")
             /\ readAfter' = NoWrite
             /\ UNCHANGED <<table, history>>
        ELSE LET data == IF IsPolars(tbl) THEN to_arrow(tbl) ELSE tbl
                 r == write_deltalake(table, data, m, "raise")
                 called == [call EXCEPT !.libCalls = 1]
                 stored == m \in {"overwrite", "append"}
             IN  /\ InBounds(r.table)
                 /\ table' = r.table
                 /\ readAfter' = NoWrite
                 /\ IF r.err = NoErr
                    THEN /\ nWrites < MaxWrites
                         /\ last' = Returned(called, tbl)
                         /\ nWrites' = nWrites + 1
                         /\ lastWritten' = tbl.schema
                         /\ nStored' = IF stored THEN nStored + 1 ELSE nStored
                         /\ lastStored' = IF stored THEN tbl.schema ELSE lastStored
                    ELSE /\ \E e \in LibErrors : last' = LoggedAndRaised(Failed(called, e), e)
                         /\ UNCHANGED history

read_table_in_deltalake(to_polars) ==
    LET call == [NoCall EXCEPT !.op = "read", !.libCalls = 1]
    IN  /\ last' = IF table.exists
                   THEN LET arrow_table == to_pyarrow_table(table)
                        IN  Returned([call EXCEPT !.result =
                                IF to_polars THEN from_arrow(arrow_table) ELSE arrow_table], NoFrame)
                   ELSE LoggedAndRaised(Failed(call, "DeltaError"), "DeltaError")
        /\ readAfter' = IF last.op = "write" /\ last.outcome = "ok"
                        THEN [mode |-> last.mode, arg |-> last.arg] ELSE NoWrite
        /\ UNCHANGED <<table, history>>

\* (mutant) the version reported one-based against a zero-based count
read_deltalake_metadata_off_by_one ==
    LET call == [NoCall EXCEPT !.op = "metadata", !.libCalls = 1]
    IN  /\ last' = IF table.exists
                   THEN Returned([call EXCEPT !.meta =
                            [schema |-> SchemaJson(table.schema), version |-> table.version - 1]],
                            NoFrame)
                   ELSE LoggedAndRaised(Failed(call, "DeltaError"), "DeltaError")
        /\ readAfter' = NoWrite
        /\ UNCHANGED <<table, history>>

read_deltalake_metadata ==
    LET call == [NoCall EXCEPT !.op = "metadata", !.libCalls = 1]
    IN  /\ last' = IF table.exists
                   THEN Returned([call EXCEPT !.meta =
                            [schema |-> SchemaJson(table.schema), version |-> table.version]],
                            NoFrame)
                   ELSE LoggedAndRaised(Failed(call, "DeltaError"), "DeltaError")
        /\ readAfter' = NoWrite
        /\ UNCHANGED <<table, history>>

upsert_delta_table(df, id_column) ==
    LET call == [NoCall EXCEPT !.op = "upsert", !.kind = df.kind, !.id_column = id_column,
                               !.libCalls = 1]
    IN  /\ \E strict \in Strictness(table, df, id_column) :
              LET r == MergeExecute(table, df, id_column, strict)
              IN  IF r.err = NoErr
                  THEN /\ table' = Commit(table, table.schema, r.rows)
                       /\ InBounds(table')
                       /\ last' = Returned([call EXCEPT !.metrics = r.metrics], df)
                  ELSE /\ table' = table
                       /\ last' = LoggedAndRaised(Failed(call, r.err), r.err)
        /\ readAfter' = NoWrite
        /\ UNCHANGED history

----------------------------------------------------------------------------
(* s3.py: connect_s3 and ensure_bucket_exists, the latter called by concurrent *)
(* callers; each call into the SDK is one step.                               *)

Callers == 1..MaxCallers
BucketNames == {"lake", "logs"}

\* What boto3.client(...) raises: botocore's own exceptions, and a ValueError for
\* an endpoint_url that is no URL.
ConnectErrors == {"BotoCoreError", "ClientError", "ValueError"}
\* except (BotoCoreError, ClientError)
Caught(e) == e \in {"BotoCoreError", "ClientError"}

NoConn == [outcome |-> "none", err |-> NoErr, sdkErr |-> NoErr, errLogs |-> 0]

connect_s3(sdk) ==
    /\ conn' = IF sdk = NoErr THEN [NoConn EXCEPT !.outcome = "ok"]
               ELSE IF Caught(sdk)
               THEN [outcome |-> "raised", err |-> sdk, sdkErr |-> sdk, errLogs |-> 1]
               ELSE [outcome |-> "raised", err |-> sdk, sdkErr |-> sdk, errLogs |-> 0]
    /\ UNCHANGED <<buckets, s3pc, s3arg, s3list, s3out, s3prev>>

\* n: calls begun; listed: list_buckets answered; creates: create_bucket calls of
\* this call; quiet: no other caller has stepped and the service has answered
\* every call since this call began.
NoEnsure == [n |-> 0, outcome |-> "none", err |-> NoErr, sdkErr |-> NoErr, errLogs |-> 0,
             listed |-> FALSE, creates |-> 0, quiet |-> TRUE]
NoPrev == [name |-> "", outcome |-> "none", quiet |-> FALSE, creates |-> 0]

\* A step of caller c disturbs every other caller.
Disturb(out, c) == [d \in Callers |-> IF d = c THEN out[d] ELSE [out[d] EXCEPT !.quiet = FALSE]]

\* (mutant) the bucket is created whatever the listing holds
AbsentUnchecked(listing, bucket_name) == TRUE
\* not any(bucket["Name"] == bucket_name for bucket in buckets)
Absent(listing, bucket_name) == ~(\E b \in listing : b = bucket_name)

\* The transport fails on any call; create_bucket on a name the service already
\* holds is answered as the service chooses, with success or with a ClientError.
ListAnswers == {NoErr, "BotoCoreError"}
CreateAnswers(name) ==
    IF name \in buckets THEN {NoErr, "ClientError", "BotoCoreError"} ELSE {NoErr, "BotoCoreError"}

EnsureRaised(o, e) ==
    [o EXCEPT !.outcome = "raised", !.err = e, !.sdkErr = e, !.errLogs = @ + 1,
              !.quiet = @ /\ e # "BotoCoreError"]

\* ensure_bucket_exists up to the answer of list_buckets().
EnsureList(c, bucket_name, sdk) ==
    /\ s3pc[c] \in {"idle", "done"}
    /\ s3out[c].n < MaxCalls
    /\ s3arg' = [s3arg EXCEPT ![c] = bucket_name]
    /\ s3prev' = [s3prev EXCEPT ![c] =
            IF s3pc[c] = "done"
            THEN [name |-> s3arg[c], outcome |-> s3out[c].outcome, quiet |-> s3out[c].quiet,
                  creates |-> s3out[c].creates]
            ELSE NoPrev]
    /\ LET o == [NoEnsure EXCEPT !.n = s3out[c].n + 1]
       IN  IF sdk # NoErr
           THEN /\ s3out' = Disturb([s3out EXCEPT ![c] = EnsureRaised(o, sdk)], c)
                /\ s3pc' = [s3pc EXCEPT ![c] = "done"]
                /\ s3list' = [s3list EXCEPT ![c] = {}]
           ELSE /\ s3list' = [s3list EXCEPT ![c] = buckets]
                /\ IF Absent(buckets, bucket_name)
                   THEN /\ s3pc' = [s3pc EXCEPT ![c] = "create"]
                        /\ s3out' = Disturb([s3out EXCEPT ![c] = [o EXCEPT !.listed = TRUE]], c)
                   ELSE /\ s3pc' = [s3pc EXCEPT ![c] = "done"]
                        /\ s3out' = Disturb([s3out EXCEPT ![c] =
                                        [o EXCEPT !.listed = TRUE, !.outcome = "ok"]], c)
    /\ UNCHANGED <<buckets, conn>>

\* (mutant) the facade looks again before it creates, and skips a bucket that is there
EnsureCreateDeduplicated(c, sdk) ==
    /\ s3pc[c] = "create"
    /\ sdk \in CreateAnswers(s3arg[c])
    /\ IF s3arg[c] \in buckets
       THEN /\ s3out' = Disturb([s3out EXCEPT ![c] = [@ EXCEPT !.outcome = "ok"]], c)
            /\ UNCHANGED buckets
       ELSE /\ s3out' = Disturb([s3out EXCEPT ![c] =
                    IF sdk = NoErr THEN [@ EXCEPT !.outcome = "ok", !.creates = @ + 1]
                    ELSE EnsureRaised([@ EXCEPT !.creates = @ + 1], sdk)], c)
            /\ buckets' = IF sdk = NoErr THEN buckets \cup {s3arg[c]} ELSE buckets
    /\ s3pc' = [s3pc EXCEPT ![c] = "done"]
    /\ UNCHANGED <<s3arg, s3list, s3prev, conn>>

\* ensure_bucket_exists from create_bucket(Bucket=bucket_name) to its return.
EnsureCreate(c, sdk) ==
    /\ s3pc[c] = "create"
    /\ sdk \in CreateAnswers(s3arg[c])
    /\ s3out' = Disturb([s3out EXCEPT ![c] =
            IF sdk = NoErr THEN [@ EXCEPT !.outcome = "ok", !.creates = @ + 1]
            ELSE EnsureRaised([@ EXCEPT !.creates = @ + 1], sdk)], c)
    /\ buckets' = IF sdk = NoErr THEN buckets \cup {s3arg[c]} ELSE buckets
    /\ s3pc' = [s3pc EXCEPT ![c] = "done"]
    /\ UNCHANGED <<s3arg, s3list, s3prev, conn>>

----------------------------------------------------------------------------
(* upsert_delta_table beside a concurrent reader and a concurrent writer.  The *)
(* merge of execute() is a transaction of the Delta log: it plans against the  *)
(* snapshot it loaded and writes its data files, which no snapshot names, and  *)
(* then commits the next version, which fails if another commit took it.       *)

NoJob == [df |-> NoFrame, id_column |-> "", base |-> -1, rows |-> EmptyBag,
          metrics |-> NoMetrics, outcome |-> "none", err |-> NoErr, errLogs |-> 0]
NoSnap == [snap |-> NoTable, upPc |-> "idle"]

\* (mutant) the deletes done as a transaction of their own, before the merge
UpsertStageDeleteFirst(df, id_column) ==
    /\ upPc = "idle"
    /\ \E strict \in Strictness(table, df, id_column) :
          LET r == MergeExecute(table, df, id_column, strict)
              job == [NoJob EXCEPT !.df = df, !.id_column = id_column]
          IN  IF r.err = NoErr
              THEN /\ upPc' = "staged"
                   /\ table' = Commit(table, table.schema,
                                    MergeRows({"when_not_matched_by_source_delete"},
                                              Format(id_column), df.rows, table.rows))
                   /\ InBounds(table')
                   /\ upJob' = [job EXCEPT !.base = table'.version,
                                    !.rows = MergeRows(MergeClauses, Format(id_column), df.rows, table'.rows),
                                    !.metrics = r.metrics]
              ELSE /\ upPc' = "done"
                   /\ upJob' = [job EXCEPT !.outcome = "raised", !.err = r.err, !.errLogs = 1]
                   /\ table' = table
    /\ UNCHANGED <<rdPc, rdSnap, seen>>

\* upsert_delta_table up to the point where execute() has planned the merge and
\* written its files; an error of the plan is logged and raised.
UpsertStage(df, id_column) ==
    /\ upPc = "idle"
    /\ \E strict \in Strictness(table, df, id_column) :
          LET r == MergeExecute(table, df, id_column, strict)
              job == [NoJob EXCEPT !.df = df, !.id_column = id_column]
          IN  IF r.err = NoErr
              THEN /\ upPc' = "staged"
                   /\ upJob' = [job EXCEPT !.base = table.version, !.rows = r.rows,
                                           !.metrics = r.metrics]
              ELSE /\ upPc' = "done"
                   /\ upJob' = [job EXCEPT !.outcome = "raised", !.err = r.err, !.errLogs = 1]
    /\ UNCHANGED <<table, rdPc, rdSnap, seen>>

\* execute() commits, or fails on a commit made since it loaded the table; then
\* upsert_delta_table returns or logs and raises.
UpsertCommit ==
    /\ upPc = "staged"
    /\ upPc' = "done"
    /\ IF table.version = upJob.base
       THEN /\ table' = Commit(table, table.schema, upJob.rows)
            /\ InBounds(table')
            /\ seen' = seen \cup {table'}
            /\ upJob' = [upJob EXCEPT !.outcome = "ok"]
       ELSE /\ upJob' = [upJob EXCEPT !.outcome = "raised", !.err = "DeltaError", !.errLogs = 1]
            /\ UNCHANGED <<table, seen>>
    /\ UNCHANGED <<rdPc, rdSnap>>

\* Commits made by the other writer so far.
Overtakes ==
    Cardinality(seen) - 1 - (IF upPc = "done" /\ upJob.outcome = "ok" THEN 1 ELSE 0)

\* Another caller's write_table_to_deltalake commits.
ConcurrentWrite(tbl, mode) ==
    LET r == write_deltalake(table, tbl, mode, "DeltaError")
    IN  /\ r.err = NoErr
        /\ Overtakes < MaxOvertakes
        /\ InBounds(r.table)
        /\ table' = r.table
        /\ seen' = seen \cup {table'}
        /\ UNCHANGED <<upPc, upJob, rdPc, rdSnap>>

\* read_table_in_deltalake: DeltaTable(path) loads the latest snapshot ...
ReaderLoad ==
    /\ rdPc = "idle"
    /\ table.exists
    /\ rdPc' = "loaded"
    /\ rdSnap' = [snap |-> table, upPc |-> upPc]
    /\ UNCHANGED <<table, upPc, upJob, seen>>

\* ... and to_pyarrow_table() reads it.
ReaderReturn ==
    /\ rdPc = "loaded"
    /\ rdPc' = "returned"
    /\ UNCHANGED <<table, upPc, upJob, rdSnap, seen>>

----------------------------------------------------------------------------
InitIdle == upPc = "idle" /\ upJob = NoJob /\ rdPc = "idle" /\ rdSnap = NoSnap /\ seen = {}

InitDelta ==
    /\ table = NoTable
    /\ last = NoCall
    /\ nWrites = 0 /\ lastWritten = NoSchema
    /\ nStored = 0 /\ lastStored = NoSchema
    /\ readAfter = NoWrite

InitS3Callers ==
    /\ s3pc = [c \in Callers |-> "idle"]
    /\ s3arg = [c \in Callers |-> ""]
    /\ s3list = [c \in Callers |-> {}]
    /\ s3out = [c \in Callers |-> NoEnsure]
    /\ s3prev = [c \in Callers |-> NoPrev]
    /\ conn = NoConn

Init ==
    /\ InitDelta
    /\ InitIdle
    /\ buckets = {} /\ InitS3Callers

Check == \E io \in LibErrors \cup {NoErr} : check_if_deltatable(io)
Write == \E tbl \in ArrowTables \cup PolarsFrames \cup Others, mode \in Modes :
            write_table_to_deltalake(tbl, mode)
Read == \E to_polars \in BOOLEAN : read_table_in_deltalake(to_polars)
Metadata == read_deltalake_metadata
Upsert == \E df \in PolarsFrames, id_column \in IdColumns : upsert_delta_table(df, id_column)

Next ==
    \/ (Check /\ UNCHANGED concVars /\ UNCHANGED s3Vars)
    \/ (Write /\ UNCHANGED concVars /\ UNCHANGED s3Vars)
    \/ (Read /\ UNCHANGED concVars /\ UNCHANGED s3Vars)
    \/ (Metadata /\ UNCHANGED concVars /\ UNCHANGED s3Vars)
    \/ (Upsert /\ UNCHANGED concVars /\ UNCHANGED s3Vars)

Spec == Init /\ [][Next]_vars

\* An upsert, a reader and a writer on a location that holds a table.
InitConc ==
    /\ \E s \in Schemas : \E b \in BagsUpTo(RowsOf(s), MaxRows) : table = Commit(NoTable, s, b)
    /\ seen = {table}
    /\ last = NoCall
    /\ nWrites = 0 /\ lastWritten = NoSchema
    /\ nStored = 0 /\ lastStored = NoSchema
    /\ readAfter = NoWrite
    /\ upPc = "idle" /\ upJob = NoJob /\ rdPc = "idle" /\ rdSnap = NoSnap
    /\ buckets = {} /\ InitS3Callers

Stage == \E df \in PolarsFrames, id_column \in IdColumns : UpsertStage(df, id_column)
Overtake == \E tbl \in {t \in ArrowTables : Size(t.rows) = 1}, mode \in {"overwrite", "append"} :
                ConcurrentWrite(tbl, mode)
deltaHistory == <<last, nWrites, lastWritten, nStored, lastStored, readAfter>>

NextConc ==
    \/ (Stage /\ UNCHANGED deltaHistory /\ UNCHANGED s3Vars)
    \/ (UpsertCommit /\ UNCHANGED deltaHistory /\ UNCHANGED s3Vars)
    \/ (Overtake /\ UNCHANGED deltaHistory /\ UNCHANGED s3Vars)
    \/ (ReaderLoad /\ UNCHANGED deltaHistory /\ UNCHANGED s3Vars)
    \/ (ReaderReturn /\ UNCHANGED deltaHistory /\ UNCHANGED s3Vars)

SpecConc == InitConc /\ [][NextConc]_vars

\* The storage facade: any buckets to start with, callers interleaved call by call
\* into the SDK.
InitS3 ==
    /\ InitDelta
    /\ InitIdle
    /\ buckets \in SUBSET BucketNames /\ InitS3Callers

Connect == \E sdk \in ConnectErrors \cup {NoErr} : connect_s3(sdk)
List == \E c \in Callers, bucket_name \in BucketNames, sdk \in ListAnswers :
            EnsureList(c, bucket_name, sdk)
Create == \E c \in Callers, sdk \in {NoErr, "ClientError", "BotoCoreError"} : EnsureCreate(c, sdk)

NextS3 ==
    \/ (Connect /\ UNCHANGED deltaVars /\ UNCHANGED concVars)
    \/ (List /\ UNCHANGED deltaVars /\ UNCHANGED concVars)
    \/ (Create /\ UNCHANGED deltaVars /\ UNCHANGED concVars)

SpecS3 == InitS3 /\ [][NextS3]_vars

----------------------------------------------------------------------------
(* Properties of the Delta facade, under Spec. *)

OK(call) == call.outcome = "ok"
\* No two rows of the bag hold the same value in column c (a null counts as a value).
UniqueIds(rows, c) ==
    \A r \in DOMAIN rows : rows[r] = 1 /\ \A r2 \in DOMAIN rows : r2 # r => r2[c] # r[c]

C2_InvalidTypeRejected ==
    [][(last'.op = "write" /\ last'.kind \notin {"arrow", "polars"})
       => (/\ last'.outcome = "raised" /\ last'.err = "ValueError"
           /\ last'.libCalls = 0
           /\ table' = table)]_vars

C2_Witness ==
    /\ last.op = "write" /\ last.kind = "dict"
    /\ last.outcome = "raised" /\ last.err = "ValueError" /\ last.libCalls = 0
    /\ table.exists /\ table.rows # EmptyBag

\* C4: an upsert called with id_column None or empty raises (the claim: a
\* ValueError, with the target not modified).
C4_MissingIdColumnRaises ==
    (last.op = "upsert" /\ last.id_column \in {PyNone, ""}) => last.outcome = "raised"

C7_VersionCountsWrites ==
    (last.op = "metadata" /\ OK(last) /\ nWrites >= 1)
        => (/\ last.meta.version >= nWrites - 1
            /\ last.meta.schema = SchemaJson(lastWritten))

\* C7 amended: after N >= 1 successful writes in overwrite or append mode to a
\* fresh location the metadata read reports a version >= N-1 and the schema of the
\* last table so written; the version of the table never decreases.
C7_VersionCountsStoredWrites ==
    [][/\ (last'.op = "metadata" /\ OK(last') /\ nStored' >= 1)
            => (/\ last'.meta.version >= nStored' - 1
                /\ last'.meta.schema = SchemaJson(lastStored'))
       /\ table'.version >= table.version]_vars

C7_Witness ==
    /\ last.op = "metadata" /\ OK(last)
    /\ nStored = 2 /\ last.meta.version = 1
    /\ last.meta.schema = SchemaJson(lastStored)

\* C10: on a location that holds a table, a write that returns normally with the
\* mode omitted or "overwrite" leaves the rows of the table passed, one with
\* "append" leaves the rows held before plus the rows passed, and a mode the
\* library rejects reaches the library and comes back as a raised error with the
\* table as it was.
C10_ModeForwarded ==
    [][(last'.op = "write" /\ last'.kind \in {"arrow", "polars"} /\ table.exists)
       => (/\ (last'.mode \in {Omitted, "overwrite"} /\ OK(last'))
                => (table'.rows = last'.arg.rows /\ table'.schema = last'.arg.schema)
           /\ (last'.mode = "append" /\ OK(last'))
                => table'.rows = table.rows (+) last'.arg.rows
           /\ (last'.mode \notin LibModes \cup {Omitted})
                => (/\ last'.outcome = "raised" /\ last'.libCalls = 1
                    /\ last'.err = last'.libErr /\ last'.libErr \in LibErrors
                    /\ table' = table))]_vars

C10_Witness ==
    /\ last.op = "write" /\ last.mode = "append" /\ OK(last)
    /\ Size(last.arg.rows) = 1 /\ Size(table.rows) = 2
    /\ table.version >= 1

----------------------------------------------------------------------------
(* Properties of the storage facade, under SpecS3. *)

\* An error of the library in a Delta call is logged once and raised as it is.
DeltaErrorLoggedOnce ==
    last.libErr # NoErr => (last.outcome = "raised" /\ last.err = last.libErr /\ last.errLogs = 1)
EnsureErrorLoggedOnce ==
    \A c \in Callers :
        s3out[c].sdkErr # NoErr
            => (s3out[c].outcome = "raised" /\ s3out[c].err = s3out[c].sdkErr
                /\ s3out[c].errLogs = 1)
ConnectErrorLoggedOnce ==
    conn.sdkErr # NoErr => (conn.outcome = "raised" /\ conn.err = conn.sdkErr /\ conn.errLogs = 1)

\* C3: in every operation an error raised by the wrapped library or SDK is logged
\* exactly once at error level and raised to the caller as it is.
C3_ErrorsLoggedOnceAndReraised ==
    DeltaErrorLoggedOnce /\ EnsureErrorLoggedOnce /\ ConnectErrorLoggedOnce

Done(c) == s3pc[c] = "done"

\* C5: a caller that calls ensure_bucket_exists twice in succession with the same
\* name (no other caller in between, the service answering) sees neither call
\* raise, the second call makes no create_bucket call, and the service holds the
\* name (once: it holds a set of names).
C5_EnsureIdempotent ==
    \A c \in Callers :
        (Done(c) /\ s3out[c].n >= 2 /\ s3prev[c].name = s3arg[c]
                 /\ s3prev[c].quiet /\ s3out[c].quiet)
            => (/\ s3prev[c].outcome = "ok" /\ s3out[c].outcome = "ok"
                /\ s3out[c].creates = 0
                /\ Cardinality({b \in buckets : b = s3arg[c]}) = 1)

\* Two undisturbed calls for a name the service did not hold: the first created
\* the bucket, the second found it listed.
C5_Witness ==
    \E c \in Callers :
        /\ Done(c) /\ s3out[c].n = 2 /\ s3prev[c].name = s3arg[c]
        /\ s3prev[c].quiet /\ s3out[c].quiet
        /\ s3prev[c].outcome = "ok" /\ s3prev[c].creates = 1
        /\ s3out[c].outcome = "ok" /\ s3out[c].creates = 0
        /\ s3arg[c] \in buckets /\ s3arg[c] \in s3list[c]

\* C9: a caller whose listing lacked the name calls create_bucket whatever the
\* other callers have done since, and its call raises exactly when the service
\* answers that create_bucket with an error, and raises that error.
C9_CreateNotCoordinated ==
    \A c \in Callers :
        (Done(c) /\ s3out[c].listed /\ s3arg[c] \notin s3list[c])
            => (/\ s3out[c].creates = 1
                /\ (s3out[c].outcome = "raised") = (s3out[c].sdkErr # NoErr)
                /\ s3out[c].err = s3out[c].sdkErr)

\* Two callers that both saw the name absent and both called create_bucket, the
\* service rejecting the second.
C9_Witness ==
    \E c, d \in Callers :
        /\ c # d /\ Done(c) /\ Done(d) /\ s3arg[c] = s3arg[d]
        /\ s3arg[c] \notin s3list[c] /\ s3arg[d] \notin s3list[d]
        /\ s3out[c].creates = 1 /\ s3out[d].creates = 1
        /\ s3out[c].outcome = "ok" /\ s3out[d].err = "ClientError"

----------------------------------------------------------------------------
(* Properties of the upsert beside other callers, under SpecConc. *)

\* C8: the upsert changes the table in one step only, its commit, which leaves
\* the whole merge (updates, inserts and deletes) of the table as it was just
\* before; until then, and when the upsert raises (logged once), the table is
\* untouched by it; and a reader, whenever it loads, holds a committed snapshot.
C8_UpsertAtomic ==
    [][/\ (upPc # "staged" /\ upPc' = "staged") => table' = table
       /\ (upPc = "staged" /\ upPc' = "done" /\ upJob'.outcome = "ok")
            => table' = Commit(table, table.schema,
                               MergeRows(MergeClauses, Format(upJob.id_column),
                                         upJob.df.rows, table.rows))
       /\ (upJob' # upJob /\ upJob'.outcome = "raised")
            => (table' = table /\ upJob'.errLogs = 1)
       /\ (rdPc' \in {"loaded", "returned"}) => rdSnap'.snap \in seen']_vars

\* A reader that loaded while the merge was staged and returned the table as it
\* was before the upsert, which then committed updates, inserts and deletes.
C8_Witness ==
    /\ rdPc = "returned" /\ rdSnap.upPc = "staged"
    /\ upPc = "done" /\ upJob.outcome = "ok"
    /\ rdSnap.snap.version = upJob.base /\ table.version = upJob.base + 1
    /\ upJob.metrics.updated >= 1 /\ upJob.metrics.inserted >= 1 /\ upJob.metrics.deleted >= 1
    /\ rdSnap.snap.rows # table.rows

====
